---------------------------- MODULE Spec2Model ----------------------------
(***************************************************************************)
(* A model of the image transformations of c_imgproc_fns.c: the pixel      *)
(* helpers (get_r .. make_pixel, compute_index, blur_pixel, rot_colors,    *)
(* avg_pixels) as operators and the four transformations (imgproc_squash,  *)
(* imgproc_color_rot, imgproc_blur, imgproc_expand) as loops that take one *)
(* step per iteration of the inner loop body.                              *)
(*                                                                         *)
(* Representation.  A uint32_t pixel 0xRRGGBBAA is the tuple of its four   *)
(* bytes <<RR, GG, BB, AA>>, most significant first (TLC's integers stop   *)
(* at 2^31 - 1, so the word itself is not a TLC number).  An int32_t is a  *)
(* TLC integer in INT32_MIN..INT32_MAX; additions and multiplications that *)
(* can leave this range are computed by Add32 and Mul32, which wrap to 32  *)
(* bits without forming the out-of-range intermediate value.               *)
(* An Image is [width, height, data] with data a sequence: the C element   *)
(* data[i] is data[i + 1] here.                                            *)
(***************************************************************************)
EXTENDS Integers, Sequences, FiniteSets, TLC

---------------------------------------------------------------------------
(* Bounds of the model *)

\* the largest input width and height, and the largest number of input pixels
MaxW == 3
MaxH == 3
MaxCells == 6
\* squash: the largest ordinary factor, and the largest output width/height
MaxFac == 2
MaxOutW == 3
MaxOutH == 3
\* blur: the largest ordinary blur distance
MaxDist == 2
\* the largest number of consecutive calls a caller chains (color_rot)
MaxCalls == 3
\* avg_pixels: the longest pixel array
MaxN == 4

(* Program constants *)
INT32_MAX == 2147483647
INT32_MIN == -INT32_MAX - 1

\* pixel values of the input images
Palette == { <<255, 128, 64, 0>>, <<0, 1, 3, 255>> }
\* the pixels of test_avg_pixel, and one with mixed channels
AvgPalette == { <<0, 0, 0, 255>>, <<255, 255, 255, 0>>, <<128, 128, 128, 255>>,
                <<64, 64, 64, 255>>, <<1, 2, 3, 4>> }
\* channel arguments of make_pixel: in range, and larger than 255
ChanArgs == { 0, 170, 255, 256, 511, 65536, 16777217 }

---------------------------------------------------------------------------
(* 32-bit arithmetic *)

\* does the int32_t addition a + b overflow (signed overflow: undefined)
AddOverflows(a, b) ==
  \/ (a > 0 /\ b > 0 /\ a > INT32_MAX - b)
  \/ (a < 0 /\ b < 0 /\ a < INT32_MIN - b)

\* a + b wrapped to 32 bits two's complement
Add32(a, b) ==
  IF a > 0 /\ b > 0 /\ a > INT32_MAX - b
    THEN ((a - INT32_MAX) + (b - INT32_MAX)) - 2
    ELSE IF a < 0 /\ b < 0 /\ a < INT32_MIN - b
      THEN ((a + INT32_MAX) + (b + INT32_MAX)) + 2
      ELSE a + b

\* n * f wrapped to 32 bits, for a small n >= 0 (a loop index or a width)
RECURSIVE Mul32(_, _)
Mul32(n, f) == IF n = 0 THEN 0 ELSE Add32(Mul32(n - 1, f), f)

\* does the int32_t multiplication n * f overflow, for n >= 0
MulOverflows(n, f) ==
  /\ n > 0
  /\ \/ f > INT32_MAX \div n
     \/ f < -(INT32_MAX \div n) - 1
     \/ (f = -(INT32_MAX \div n) - 1 /\ INT32_MAX % n # n - 1)

\* bitwise or of two bytes
RECURSIVE OrByte(_, _)
OrByte(x, y) ==
  IF x = 0 THEN y
  ELSE IF y = 0 THEN x
  ELSE (IF x % 2 = 1 \/ y % 2 = 1 THEN 1 ELSE 0) + 2 * OrByte(x \div 2, y \div 2)

\* the four bytes of the uint32_t value n (0 <= n <= INT32_MAX)
ToWord(n) == << (n \div 16777216) % 256, (n \div 65536) % 256, (n \div 256) % 256, n % 256 >>

\* w << 8 on a uint32_t: the top byte is shifted out
Shl8(w) == << w[2], w[3], w[4], 0 >>

\* w | v on uint32_t
WordOr(w, v) == << OrByte(w[1], v[1]), OrByte(w[2], v[2]), OrByte(w[3], v[3]), OrByte(w[4], v[4]) >>

---------------------------------------------------------------------------
(* Pixel helpers *)

get_r(pixel) == pixel[1]
get_g(pixel) == pixel[2]
get_b(pixel) == pixel[3]
get_a(pixel) == pixel[4]

\* a plausible slip: green and blue swapped in the packing
make_pixel_swapped(r, g, b, a) ==
  WordOr(WordOr(WordOr(Shl8(Shl8(Shl8(ToWord(r)))), Shl8(Shl8(ToWord(b)))),
                Shl8(ToWord(g))), ToWord(a))

\* (r << 24) | (g << 16) | (b << 8) | a  on uint32_t
make_pixel(r, g, b, a) ==
  WordOr(WordOr(WordOr(Shl8(Shl8(Shl8(ToWord(r)))), Shl8(Shl8(ToWord(g)))),
                Shl8(ToWord(b))), ToWord(a))

\* row * img->width + col in int32_t
compute_index(img, row, col) == Add32(Mul32(img.width, row), col)

\* img->data[index] for an index inside the array
Data(img, index) == img.data[index + 1]

InBounds(img, index) == index >= 0 /\ index < img.width * img.height

\* blur_pixel: the clamped window [r_start, r_end] x [c_start, c_end]
BlurWindow(img, row, col, blur_dist) ==
  LET r_start == row - blur_dist
      r_end   == Add32(row, blur_dist)
      c_start == col - blur_dist
      c_end   == Add32(col, blur_dist)
  IN [ r_start |-> IF r_start < 0 THEN 0 ELSE r_start,
       r_end   |-> IF r_end >= img.height THEN img.height - 1 ELSE r_end,
       c_start |-> IF c_start < 0 THEN 0 ELSE c_start,
       c_end   |-> IF c_end >= img.width THEN img.width - 1 ELSE c_end ]

\* blur_pixel: is row + blur_dist or col + blur_dist a signed overflow
BlurOverflows(row, col, blur_dist) ==
  AddOverflows(row, blur_dist) \/ AddOverflows(col, blur_dist)

\* blur_pixel: the two nested for loops, from (r, c) on, adding up channel ch
\* (ch = 0 counts the iterations)
RECURSIVE BlurTotal(_, _, _, _, _)
BlurTotal(img, win, ch, r, c) ==
  IF r > win.r_end THEN 0
  ELSE IF c > win.c_end THEN BlurTotal(img, win, ch, r + 1, win.c_start)
  ELSE (IF ch = 0 THEN 1 ELSE Data(img, compute_index(img, r, c))[ch])
       + BlurTotal(img, win, ch, r, c + 1)

\* blur_pixel: the value of count when the loops end
blur_count(img, row, col, blur_dist) ==
  LET win == BlurWindow(img, row, col, blur_dist)
  IN BlurTotal(img, win, 0, win.r_start, win.c_start)

\* a plausible slip: the alpha is set to opaque instead of copied from the
\* input pixel
blur_pixel_opaque(img, row, col, blur_dist) ==
  LET win   == BlurWindow(img, row, col, blur_dist)
      count == BlurTotal(img, win, 0, win.r_start, win.c_start)
  IN make_pixel(BlurTotal(img, win, 1, win.r_start, win.c_start) \div count,
                BlurTotal(img, win, 2, win.r_start, win.c_start) \div count,
                BlurTotal(img, win, 3, win.r_start, win.c_start) \div count,
                255)

\* blur_pixel, when count > 0
blur_pixel(img, row, col, blur_dist) ==
  LET win   == BlurWindow(img, row, col, blur_dist)
      count == BlurTotal(img, win, 0, win.r_start, win.c_start)
  IN make_pixel(BlurTotal(img, win, 1, win.r_start, win.c_start) \div count,
                BlurTotal(img, win, 2, win.r_start, win.c_start) \div count,
                BlurTotal(img, win, 3, win.r_start, win.c_start) \div count,
                get_a(Data(img, compute_index(img, row, col))))

\* a plausible slip: the rotation goes the other way
rot_colors_back(img, index) ==
  LET pixel == Data(img, index)
  IN make_pixel(get_g(pixel), get_b(pixel), get_r(pixel), get_a(pixel))

\* a plausible slip: green and blue exchanged, red kept
rot_colors_swap(img, index) ==
  LET pixel == Data(img, index)
  IN make_pixel(get_r(pixel), get_b(pixel), get_g(pixel), get_a(pixel))

rot_colors(img, index) ==
  LET pixel == Data(img, index)
  IN make_pixel(get_b(pixel), get_r(pixel), get_g(pixel), get_a(pixel))

\* avg_pixels: the accumulation loop from index i on, for channel ch.
\* The accumulators are uint32_t; within the bounds of this model a total is
\* at most 255 * MaxN and never wraps.
RECURSIVE AvgTotal(_, _, _, _)
AvgTotal(pixels, num_pixels, ch, i) ==
  IF i >= num_pixels THEN 0
  ELSE pixels[i + 1][ch] + AvgTotal(pixels, num_pixels, ch, i + 1)

\* a plausible slip: round to nearest instead of truncating
avg_pixels_round(pixels, num_pixels) ==
  make_pixel((2 * AvgTotal(pixels, num_pixels, 1, 0) + num_pixels) \div (2 * num_pixels),
             (2 * AvgTotal(pixels, num_pixels, 2, 0) + num_pixels) \div (2 * num_pixels),
             (2 * AvgTotal(pixels, num_pixels, 3, 0) + num_pixels) \div (2 * num_pixels),
             (2 * AvgTotal(pixels, num_pixels, 4, 0) + num_pixels) \div (2 * num_pixels))

avg_pixels(pixels, num_pixels) ==
  make_pixel(AvgTotal(pixels, num_pixels, 1, 0) \div num_pixels,
             AvgTotal(pixels, num_pixels, 2, 0) \div num_pixels,
             AvgTotal(pixels, num_pixels, 3, 0) \div num_pixels,
             AvgTotal(pixels, num_pixels, 4, 0) \div num_pixels)

---------------------------------------------------------------------------
(* Images *)

\* a word at data[index] of the named raster that the program never wrote
\* and that equals no word the program holds and no word at another
\* address.  It is named by its address (no byte of a real word is
\* negative).  This is one of the values such an address can hold, never
\* the only one
Indeterminate(raster, index) == << -1, raster, index, 0 >>

\* a buffer of w x h pixels that the allocator cleared
ZeroFilled(w, h) == [width |-> w, height |-> h, data |-> [i \in 1..(w * h) |-> ToWord(0)]]

\* a buffer of w x h pixels that nothing has written
Uninitialized(w, h) ==
  [width |-> w, height |-> h, data |-> [i \in 1..(w * h) |-> Indeterminate("output", i - 1)]]

\* img_init: the rasters it can hand out for the given size, zero-filled
\* or uninitialized
img_init(w, h) == { ZeroFilled(w, h), Uninitialized(w, h) }

\* the input images: every size up to MaxW x MaxH with at most MaxCells
\* pixels, every pixel from Palette
Images ==
  UNION { { [width |-> s[1], height |-> s[2], data |-> d] : d \in [1..(s[1] * s[2]) -> Palette] } :
          s \in { t \in (1..MaxW) \X (1..MaxH) : t[1] * t[2] <= MaxCells } }

\* the word at data[index] in front of the array of a test fixture: data
\* points at the pixels member of a struct TestImageData, and the members
\* width and height lie directly in front of it
FixtureWord(img, index) ==
  IF index = -2 THEN ToWord(img.width)
  ELSE IF index = -1 THEN ToWord(img.height)
  ELSE Indeterminate("input", index)

NoPixel == <<0, 0, 0, 0>>

---------------------------------------------------------------------------
(* The outcomes of one iteration of each loop body.  An outcome is a write *)
(* of a pixel to the output cell of the iteration, no write, or a trap     *)
(* (the process is killed).  Where the C code has defined behaviour there  *)
(* is exactly one outcome.                                                 *)

Write(p) == [kind |-> "write", pixel |-> p]
Skip     == [kind |-> "skip",  pixel |-> NoPixel]
Trap     == [kind |-> "trap",  pixel |-> NoPixel]

\* the words a read of data[index] outside the array can return, by what
\* lies at that address: a member of the fixture whose pixels the array is;
\* zero (padding, or the zero tail of the pixels of a fixture declared in
\* front, which has room for more pixels than its image); a pixel of
\* another image; or a word equal to none the program holds
OutsideWords(img, index) ==
  { FixtureWord(img, index), ToWord(0), Indeterminate("input", index) } \cup Palette

\* img->data[index]: the element.  For an index outside the array the read
\* is undefined: it traps (a checking build), or it returns the word that
\* lies at that address
ReadOutcomes(img, index) ==
  IF InBounds(img, index) THEN { Write(Data(img, index)) }
  ELSE { Trap } \cup { Write(p) : p \in OutsideWords(img, index) }

\* imgproc_squash, the body of the inner loop at (row, col)
SquashBody(input_img, row, col, xfac, yfac) ==
  LET input_row == Mul32(row, yfac)
      input_col == Mul32(col, xfac)
      taken == IF input_row < input_img.height /\ input_col < input_img.width
                 THEN ReadOutcomes(input_img, compute_index(input_img, input_row, input_col))
                 ELSE { Skip }
  IN  \* a signed overflow in row * yfac or col * xfac is undefined: the
      \* product wraps, or the multiplication traps
      IF MulOverflows(row, yfac) \/ MulOverflows(col, xfac)
        THEN taken \cup { Trap }
        ELSE taken

\* imgproc_color_rot, the body of the inner loop at (row, col)
ColorRotBody(input_img, row, col) ==
  { Write(rot_colors(input_img, compute_index(input_img, row, col))) }

\* imgproc_blur, the body of the inner loop at (row, col).  When the window
\* is empty blur_pixel divides by count = 0 (undefined): the division traps,
\* or yields 0 for each colour.
BlurBody(input_img, row, col, blur_dist) ==
  LET divided ==
        IF blur_count(input_img, row, col, blur_dist) = 0
          THEN { Trap,
                 Write(make_pixel(0, 0, 0,
                         get_a(Data(input_img, compute_index(input_img, row, col))))) }
          ELSE { Write(blur_pixel(input_img, row, col, blur_dist)) }
  IN IF BlurOverflows(row, col, blur_dist) THEN divided \cup { Trap } ELSE divided

\* a plausible slip: the odd-row, even-column case copied from the case
\* above it, so that it averages with the pixel to the right
ExpandPixels_copied(input_img, row, col) ==
  LET here  == << Data(input_img, compute_index(input_img, row \div 2, col \div 2)) >>
      right == IF (col \div 2) + 1 < input_img.width
                 THEN << Data(input_img, compute_index(input_img, row \div 2, (col \div 2) + 1)) >>
                 ELSE << >>
      below == IF (row \div 2) + 1 < input_img.height
                 THEN << Data(input_img, compute_index(input_img, (row \div 2) + 1, col \div 2)) >>
                 ELSE << >>
      diag  == IF (col \div 2) + 1 < input_img.width /\ (row \div 2) + 1 < input_img.height
                 THEN << Data(input_img, compute_index(input_img, (row \div 2) + 1, (col \div 2) + 1)) >>
                 ELSE << >>
  IN IF row % 2 = 0 /\ col % 2 = 1 THEN here \o right
     ELSE IF row % 2 = 1 /\ col % 2 = 0 THEN here \o right
     ELSE here \o right \o below \o diag

\* a plausible slip: the odd-row, odd-column case leaves out the pixel
\* at (row/2 + 1, col/2 + 1)
ExpandPixels_nodiag(input_img, row, col) ==
  LET here  == << Data(input_img, compute_index(input_img, row \div 2, col \div 2)) >>
      right == IF (col \div 2) + 1 < input_img.width
                 THEN << Data(input_img, compute_index(input_img, row \div 2, (col \div 2) + 1)) >>
                 ELSE << >>
      below == IF (row \div 2) + 1 < input_img.height
                 THEN << Data(input_img, compute_index(input_img, (row \div 2) + 1, col \div 2)) >>
                 ELSE << >>
  IN IF row % 2 = 0 /\ col % 2 = 1 THEN here \o right
     ELSE IF row % 2 = 1 /\ col % 2 = 0 THEN here \o below
     ELSE here \o right \o below

\* imgproc_expand: the local array pixels[0 .. count-1] of the three
\* averaging cases at (row, col)
ExpandPixels(input_img, row, col) ==
  LET here  == << Data(input_img, compute_index(input_img, row \div 2, col \div 2)) >>
      right == IF (col \div 2) + 1 < input_img.width
                 THEN << Data(input_img, compute_index(input_img, row \div 2, (col \div 2) + 1)) >>
                 ELSE << >>
      below == IF (row \div 2) + 1 < input_img.height
                 THEN << Data(input_img, compute_index(input_img, (row \div 2) + 1, col \div 2)) >>
                 ELSE << >>
      diag  == IF (col \div 2) + 1 < input_img.width /\ (row \div 2) + 1 < input_img.height
                 THEN << Data(input_img, compute_index(input_img, (row \div 2) + 1, (col \div 2) + 1)) >>
                 ELSE << >>
  IN IF row % 2 = 0 /\ col % 2 = 1 THEN here \o right
     ELSE IF row % 2 = 1 /\ col % 2 = 0 THEN here \o below
     ELSE here \o right \o below \o diag

\* a plausible slip: the totals divided by the capacity of pixels[] (2 or 4)
\* instead of by count
expand_pixel_capacity(input_img, row, col) ==
  LET pixels   == ExpandPixels(input_img, row, col)
      capacity == IF row % 2 = 1 /\ col % 2 = 1 THEN 4 ELSE 2
  IN IF row % 2 = 0 /\ col % 2 = 0
       THEN Data(input_img, compute_index(input_img, row \div 2, col \div 2))
       ELSE make_pixel(AvgTotal(pixels, Len(pixels), 1, 0) \div capacity,
                       AvgTotal(pixels, Len(pixels), 2, 0) \div capacity,
                       AvgTotal(pixels, Len(pixels), 3, 0) \div capacity,
                       AvgTotal(pixels, Len(pixels), 4, 0) \div capacity)

\* imgproc_expand, the pixel stored at output (row, col)
expand_pixel(input_img, row, col) ==
  IF row % 2 = 0 /\ col % 2 = 0
    THEN Data(input_img, compute_index(input_img, row \div 2, col \div 2))
    ELSE avg_pixels(ExpandPixels(input_img, row, col), Len(ExpandPixels(input_img, row, col)))

\* imgproc_expand, the body of the inner loop at (row, col)
ExpandBody(input_img, row, col) == { Write(expand_pixel(input_img, row, col)) }

\* the indices at which the iteration at (row, col) of imgproc_squash reads
\* input_img->data
SquashReads(input_img, row, col, xfac, yfac) ==
  IF Mul32(row, yfac) < input_img.height /\ Mul32(col, xfac) < input_img.width
    THEN { compute_index(input_img, Mul32(row, yfac), Mul32(col, xfac)) }
    ELSE {}

\* the index at which rot_colors reads img->data
ColorRotReads(input_img, row, col) == { compute_index(input_img, row, col) }

\* the indices at which blur_pixel reads img->data: the window, and (row, col)
BlurReads(img, row, col, blur_dist) ==
  LET win == BlurWindow(img, row, col, blur_dist)
  IN { compute_index(img, x[1], x[2]) :
         x \in (win.r_start .. win.r_end) \X (win.c_start .. win.c_end) }
     \cup { compute_index(img, row, col) }

\* the indices at which the iteration at (row, col) of imgproc_expand reads
\* input_img->data
ExpandReads(input_img, row, col) ==
  LET r == row \div 2
      c == col \div 2
      here  == { compute_index(input_img, r, c) }
      right == IF c + 1 < input_img.width THEN { compute_index(input_img, r, c + 1) } ELSE {}
      below == IF r + 1 < input_img.height THEN { compute_index(input_img, r + 1, c) } ELSE {}
      diag  == IF c + 1 < input_img.width /\ r + 1 < input_img.height
                 THEN { compute_index(input_img, r + 1, c + 1) } ELSE {}
  IN IF row % 2 = 0 /\ col % 2 = 0 THEN here
     ELSE IF row % 2 = 0 /\ col % 2 = 1 THEN here \cup right
     ELSE IF row % 2 = 1 /\ col % 2 = 0 THEN here \cup below
     ELSE here \cup right \cup below \cup diag

\* a plausible slip: the store goes through input_img as well
Store_alias(input_img, output_img, index, pixel) ==
  [ input_img  |-> IF InBounds(input_img, index)
                     THEN [input_img EXCEPT !.data[index + 1] = pixel]
                     ELSE input_img,
    output_img |-> [output_img EXCEPT !.data[index + 1] = pixel] ]

\* output_img->data[index] = pixel: the two rasters after the store
Store(input_img, output_img, index, pixel) ==
  [ input_img  |-> input_img,
    output_img |-> [output_img EXCEPT !.data[index + 1] = pixel] ]

---------------------------------------------------------------------------
(* State *)

VARIABLES
  pc,        \* "idle", "run" (inside a transformation), "done", "trap"
  op,        \* the transformation called: "squash", "color_rot", "blur", "expand"
  input,     \* *input_img
  output,    \* *output_img
  in0,       \* *input_img as it was when the call began
  out0,      \* *output_img as it was when the call began
  xfac, yfac, blur_dist,   \* the parameters of the call
  row, col,  \* the loop variables
  writes,    \* how often each cell of the output has been stored to in this call
  orig,      \* the image the caller started from
  calls,     \* how many calls the caller has made
  prevOut,   \* the output of the caller's previous call
  prevDist,  \* the blur_dist of the caller's previous call
  fn, args, result   \* a direct call of a pixel helper

vars == << pc, op, input, output, in0, out0, xfac, yfac, blur_dist, row, col,
           writes, orig, calls, prevOut, prevDist, fn, args, result >>

helperVars == << fn, args, result >>
callerVars == << orig, calls, prevOut, prevDist >>
paramVars  == << op, xfac, yfac, blur_dist >>

\* squash factors and blur distances: small ones, and the largest int32_t
Facs  == (1..MaxFac) \cup { INT32_MAX }
Dists == (0..MaxDist) \cup { INT32_MAX }

Init ==
  /\ pc = "idle"
  /\ op = "none"
  /\ input \in Images
  /\ output = ZeroFilled(1, 1)
  /\ in0 = input
  /\ out0 = output
  /\ xfac = 1 /\ yfac = 1 /\ blur_dist = 0
  /\ row = 0 /\ col = 0
  /\ writes = << 0 >>
  /\ orig = input
  /\ calls = 0
  /\ prevOut = output
  /\ prevDist = 0
  /\ fn = "none" /\ args = << >> /\ result = NoPixel

\* the caller passes in and the fresh raster out to transformation o
Begin(o, in, out) ==
  /\ pc' = "run"
  /\ op' = o
  /\ input' = in
  /\ output' = out
  /\ in0' = in
  /\ out0' = out
  /\ row' = 0 /\ col' = 0
  /\ writes' = [i \in 1..(out.width * out.height) |-> 0]
  /\ calls' = calls + 1
  /\ prevOut' = output
  /\ prevDist' = blur_dist
  /\ UNCHANGED << orig, helperVars >>

CallSquash ==
  /\ pc = "idle"
  /\ \E x \in Facs, y \in Facs, w \in 1..MaxOutW, h \in 1..MaxOutH :
     \E out \in img_init(w, h) :
       /\ Begin("squash", input, out)
       /\ xfac' = x /\ yfac' = y /\ blur_dist' = 0

\* color_rot on the image, or on the output of the previous color_rot
CallColorRot ==
  /\ \/ pc = "idle"
     \/ pc = "done" /\ op = "color_rot" /\ calls < MaxCalls
  /\ \E out \in img_init(input.width, input.height) :
       Begin("color_rot", IF pc = "idle" THEN input ELSE output, out)
  /\ xfac' = 1 /\ yfac' = 1 /\ blur_dist' = 0

\* blur of the image, or a second blur of the same image with another distance
CallBlur ==
  /\ \/ pc = "idle"
     \/ pc = "done" /\ op = "blur" /\ calls < 2
  /\ \E d \in Dists, out \in img_init(input.width, input.height) :
       /\ Begin("blur", input, out)
       /\ blur_dist' = d
  /\ xfac' = 1 /\ yfac' = 1

CallExpand ==
  /\ pc = "idle"
  /\ \E out \in img_init(2 * input.width, 2 * input.height) :
       Begin("expand", input, out)
  /\ xfac' = 1 /\ yfac' = 1 /\ blur_dist' = 0

\* the loops of squash and expand run over the output, those of color_rot
\* and blur over the input
LoopW == IF op \in {"squash", "expand"} THEN output.width ELSE input.width
LoopH == IF op \in {"squash", "expand"} THEN output.height ELSE input.height

\* a plausible slip: the index of the store computed from the input raster
\* in every transformation, as color_rot and blur do
OutIndex_input == compute_index(input, row, col)

\* the cell of the output that the iteration at (row, col) stores to
OutIndex ==
  IF op \in {"squash", "expand"} THEN compute_index(output, row, col)
  ELSE compute_index(input, row, col)

\* one iteration of the inner loop with outcome o, then col++ (and row++)
Iterate(o) ==
  /\ IF o.kind = "trap"
       THEN /\ pc' = "trap"
            /\ UNCHANGED << input, output, row, col, writes >>
       ELSE /\ pc' = pc
            /\ IF o.kind = "write"
                 THEN /\ input' = Store(input, output, OutIndex, o.pixel).input_img
                      /\ output' = Store(input, output, OutIndex, o.pixel).output_img
                      /\ writes' = [writes EXCEPT ![OutIndex + 1] = @ + 1]
                 ELSE UNCHANGED << input, output, writes >>
            /\ IF col + 1 < LoopW
                 THEN col' = col + 1 /\ row' = row
                 ELSE col' = 0 /\ row' = row + 1
  /\ UNCHANGED << in0, out0, paramVars, callerVars, helperVars >>

SquashStep ==
  /\ pc = "run" /\ op = "squash" /\ row < LoopH
  /\ \E o \in SquashBody(input, row, col, xfac, yfac) : Iterate(o)

ColorRotStep ==
  /\ pc = "run" /\ op = "color_rot" /\ row < LoopH
  /\ \E o \in ColorRotBody(input, row, col) : Iterate(o)

BlurStep ==
  /\ pc = "run" /\ op = "blur" /\ row < LoopH
  /\ \E o \in BlurBody(input, row, col, blur_dist) : Iterate(o)

ExpandStep ==
  /\ pc = "run" /\ op = "expand" /\ row < LoopH
  /\ \E o \in ExpandBody(input, row, col) : Iterate(o)

\* the outer loop ends and the transformation returns
Return ==
  /\ pc = "run"
  /\ row >= LoopH
  /\ pc' = "done"
  /\ UNCHANGED << input, output, in0, out0, paramVars, row, col, writes,
                  callerVars, helperVars >>

Next ==
  \/ CallSquash \/ CallColorRot \/ CallBlur \/ CallExpand
  \/ SquashStep \/ ColorRotStep \/ BlurStep \/ ExpandStep
  \/ Return

Spec == Init /\ [][Next]_vars

---------------------------------------------------------------------------
(* Direct calls of the pixel helpers *)

\* every sequence of 1..MaxN pixels of AvgPalette
PixelArrays == UNION { [1..n -> AvgPalette] : n \in 1..MaxN }

InitPixel ==
  /\ pc = "idle"
  /\ op = "none"
  /\ input = [width |-> 1, height |-> 1, data |-> << NoPixel >>]
  /\ output = ZeroFilled(1, 1)
  /\ in0 = input
  /\ out0 = output
  /\ xfac = 1 /\ yfac = 1 /\ blur_dist = 0
  /\ row = 0 /\ col = 0
  /\ writes = << 0 >>
  /\ orig = input
  /\ calls = 0
  /\ prevOut = output
  /\ prevDist = 0
  /\ result = NoPixel
  /\ \/ fn = "make_pixel" /\ args \in [1..4 -> ChanArgs]
     \/ fn = "avg_pixels" /\ args \in PixelArrays

MakePixelCall ==
  /\ pc = "idle" /\ fn = "make_pixel"
  /\ result' = make_pixel(args[1], args[2], args[3], args[4])
  /\ pc' = "done"
  /\ UNCHANGED << op, input, output, in0, out0, xfac, yfac, blur_dist, row, col,
                  writes, callerVars, fn, args >>

AvgPixelsCall ==
  /\ pc = "idle" /\ fn = "avg_pixels"
  /\ result' = avg_pixels(args, Len(args))
  /\ pc' = "done"
  /\ UNCHANGED << op, input, output, in0, out0, xfac, yfac, blur_dist, row, col,
                  writes, callerVars, fn, args >>

NextPixel == MakePixelCall \/ AvgPixelsCall

SpecPixel == InitPixel /\ [][NextPixel]_vars

---------------------------------------------------------------------------
(* What the claims speak of *)

\* the pixel of img at (r, c), for a coordinate inside the image
At(img, r, c) == img.data[r * img.width + c + 1]

Inside(img, r, c) == r >= 0 /\ r < img.height /\ c >= 0 /\ c < img.width

Coords(img) == (0..(img.height - 1)) \X (0..(img.width - 1))

\* the iteration at (r, c) of the running loop is over
Passed(r, c) == pc = "done" \/ r < row \/ (r = row /\ c < col)

\* q is the truncating quotient of total by n
IsQuotient(q, total, n) == q * n <= total /\ total < (q + 1) * n

\* the sum of channel ch of img over the set S of coordinates
RECURSIVE ChannelSum(_, _, _)
ChannelSum(img, S, ch) ==
  IF S = {} THEN 0
  ELSE LET x == CHOOSE y \in S : TRUE
       IN At(img, x[1], x[2])[ch] + ChannelSum(img, S \ {x}, ch)

\* the window of blur around (r, c), clamped to the image
Box(img, r, c, d) ==
  { x \in Coords(img) : x[1] - r <= d /\ r - x[1] <= d /\ x[2] - c <= d /\ c - x[2] <= d }

\* p is the box mean of img around (r, c) with the alpha of img at (r, c)
IsBoxMean(p, img, r, c, d) ==
  /\ \A ch \in 1..3 :
       /\ p[ch] \in 0..255
       /\ IsQuotient(p[ch], ChannelSum(img, Box(img, r, c, d), ch),
                     Cardinality(Box(img, r, c, d)))
  /\ p[4] = At(img, r, c)[4]

\* C1: during and after imgproc_blur, for every blur_dist >= 0, the call does
\* not trap and every output pixel stored so far holds, per colour channel,
\* the truncating quotient of the channel's sum over the clamped window by
\* the number of pixels of the window, and the alpha of the input pixel.
C1_BlurIsBoxMean ==
  op = "blur" =>
    /\ pc # "trap"
    /\ \A x \in Coords(input) :
         Passed(x[1], x[2]) => IsBoxMean(At(output, x[1], x[2]), input, x[1], x[2], blur_dist)

\* the candidates of expand for output (i, j) that lie inside the input
Candidates(img, i, j) ==
  { x \in { << i \div 2, j \div 2 >> }
          \cup (IF j % 2 = 1 THEN { << i \div 2, (j \div 2) + 1 >> } ELSE {})
          \cup (IF i % 2 = 1 THEN { << (i \div 2) + 1, j \div 2 >> } ELSE {})
          \cup (IF i % 2 = 1 /\ j % 2 = 1 THEN { << (i \div 2) + 1, (j \div 2) + 1 >> } ELSE {}) :
      Inside(img, x[1], x[2]) }

\* C2: during and after imgproc_expand into an output of twice the size,
\* every output pixel (i, j) stored so far holds, per channel (alpha too),
\* the truncating quotient of the channel's sum over the in-bounds
\* candidates of its parity case by their number (the input pixel itself
\* when i and j are even).
C2_ExpandParityAverage ==
  op = "expand" =>
    /\ pc # "trap"
    /\ \A x \in Coords(output) :
         Passed(x[1], x[2]) =>
           /\ \A ch \in 1..4 :
                /\ At(output, x[1], x[2])[ch] \in 0..255
                /\ IsQuotient(At(output, x[1], x[2])[ch],
                              ChannelSum(input, Candidates(input, x[1], x[2]), ch),
                              Cardinality(Candidates(input, x[1], x[2])))
           /\ (x[1] % 2 = 0 /\ x[2] % 2 = 0) =>
                At(output, x[1], x[2]) = At(input, x[1] \div 2, x[2] \div 2)

C2_Witness ==
  /\ op = "expand" /\ pc = "done"
  /\ input.width = 2 /\ input.height = 2
  /\ At(input, 0, 0) = <<255, 128, 64, 0>> /\ At(input, 0, 1) = <<0, 1, 3, 255>>
  /\ At(input, 1, 0) = <<0, 1, 3, 255>>    /\ At(input, 1, 1) = <<0, 1, 3, 255>>
  /\ At(output, 0, 1) = <<127, 64, 33, 127>>
  /\ At(output, 1, 1) = <<63, 32, 18, 191>>
  /\ At(output, 3, 3) = <<0, 1, 3, 255>>

\* n * fac < size, without forming a product that leaves the integers of TLC
ProductBelow(n, fac, size) == n = 0 \/ fac <= (size - 1) \div n

\* C3: after imgproc_squash, for every xfac > 0, yfac > 0 and output size,
\* each output pixel (row, col) equals the input pixel at (row*yfac, col*xfac)
\* when that coordinate lies inside the input, and otherwise holds the value
\* it had before the call.
C3_SquashSamples ==
  (op = "squash" /\ pc = "done") =>
    \A x \in Coords(output) :
      IF ProductBelow(x[1], yfac, input.height) /\ ProductBelow(x[2], xfac, input.width)
        THEN At(output, x[1], x[2]) = At(input, x[1] * yfac, x[2] * xfac)
        ELSE At(output, x[1], x[2]) = At(out0, x[1], x[2])

\* C4: during and after imgproc_color_rot every output pixel stored so far
\* has red = the input's blue, green = the input's red, blue = the input's
\* green and alpha = the input's alpha, at the same position; 0xAABBCCDD
\* becomes 0xCCAABBDD.
C4_ColorRotPermutes ==
  /\ rot_colors([width |-> 1, height |-> 1, data |-> << <<170, 187, 204, 221>> >>], 0) = <<204, 170, 187, 221>>
  /\ op = "color_rot" =>
       /\ pc # "trap"
       /\ \A x \in Coords(input) :
            Passed(x[1], x[2]) =>
              At(output, x[1], x[2]) = << At(input, x[1], x[2])[3], At(input, x[1], x[2])[1],
                                          At(input, x[1], x[2])[2], At(input, x[1], x[2])[4] >>

C4_Witness ==
  /\ op = "color_rot" /\ pc = "done" /\ calls = 1
  /\ input.width = 3 /\ input.height = 2
  /\ At(input, 1, 2) = <<255, 128, 64, 0>>
  /\ At(output, 1, 2) = <<64, 255, 128, 0>>

\* C5: after three chained calls of imgproc_color_rot, each reading the
\* output of the one before, the last output is identical to the image the
\* chain began with.
C5_ThreeRotationsRestore ==
  (op = "color_rot" /\ calls = 3 /\ pc = "done") =>
    /\ output.width = orig.width /\ output.height = orig.height
    /\ output.data = orig.data

C5_Witness ==
  /\ op = "color_rot" /\ calls = 3 /\ pc = "done"
  /\ orig.width = 2 /\ orig.height = 2
  /\ At(orig, 0, 1) = <<255, 128, 64, 0>>
  /\ At(input, 0, 1) = <<128, 64, 255, 0>>
  /\ At(output, 0, 1) = <<255, 128, 64, 0>>

\* C6: after imgproc_blur with blur_dist = 0 the output is identical to the
\* input, pixel for pixel.
C6_BlurZeroIsIdentity ==
  (op = "blur" /\ blur_dist = 0) =>
    /\ pc # "trap"
    /\ pc = "done" =>
         /\ output.width = input.width /\ output.height = input.height
         /\ output.data = input.data

C6_Witness ==
  /\ op = "blur" /\ blur_dist = 0 /\ pc = "done"
  /\ input.width = 3 /\ input.height = 2
  /\ At(input, 0, 0) # At(input, 0, 1)
  /\ At(output, 0, 0) = At(input, 0, 0) /\ At(output, 0, 1) = At(input, 0, 1)

\* the larger of the two dimensions of img
MaxDim(img) == IF img.width >= img.height THEN img.width ELSE img.height

\* C7: when the same image is blurred twice, with two distances that are
\* both at least its largest dimension, the second call does not trap and
\* its output is identical to the output of the first.
C7_BlurSaturates ==
  (op = "blur" /\ calls = 2 /\ prevDist >= MaxDim(input) /\ blur_dist >= MaxDim(input)) =>
    /\ pc # "trap"
    /\ pc = "done" => (output.data = prevOut.data)

\* C8 as stated: make_pixel uses only the low 8 bits of every argument.
C8_LowBitsOfEveryChannel ==
  (fn = "make_pixel" /\ pc = "done") =>
    result = << args[1] % 256, args[2] % 256, args[3] % 256, args[4] % 256 >>

\* C8, amended: make_pixel uses only the low 8 bits of its red argument (the
\* bits above them are shifted out of the 32-bit word): when g, b and a are
\* at most 255 the packed pixel has the channels r mod 256, g, b, a.  The
\* alpha channel always holds a mod 256.
C8_LowBitsOfRed ==
  (fn = "make_pixel" /\ pc = "done") =>
    /\ (args[2] <= 255 /\ args[3] <= 255 /\ args[4] <= 255) =>
         result = << args[1] % 256, args[2], args[3], args[4] >>
    /\ get_a(result) = args[4] % 256

C8_Witness ==
  /\ fn = "make_pixel" /\ pc = "done"
  /\ args = << 511, 170, 255, 0 >>
  /\ result = << 255, 170, 255, 0 >>

\* the sum of channel ch over the first n pixels of the array, from the back
RECURSIVE ArraySum(_, _, _)
ArraySum(pixels, ch, n) ==
  IF n = 0 THEN 0 ELSE pixels[n][ch] + ArraySum(pixels, ch, n - 1)

\* C9: avg_pixels of N >= 1 pixels returns the pixel whose four channels are
\* each floor(channel sum / N), each within 0..255; the reds 0x00, 0xFF,
\* 0x80, 0x40 give 0x6F.
C9_AvgTruncates ==
  (fn = "avg_pixels" /\ pc = "done") =>
    \A ch \in 1..4 :
      /\ result[ch] \in 0..255
      /\ IsQuotient(result[ch], ArraySum(args, ch, Len(args)), Len(args))

C9_Witness ==
  /\ fn = "avg_pixels" /\ pc = "done"
  /\ args = << <<0, 0, 0, 255>>, <<255, 255, 255, 0>>, <<128, 128, 128, 255>>, <<64, 64, 64, 255>> >>
  /\ result = << 111, 111, 111, 191 >>

\* C10: during and after a call of any of the four transformations the
\* input raster has the width, the height and the pixels it had when the
\* call began.
C10_InputUnchanged ==
  pc \in {"run", "done", "trap"} => input = in0

C10_Witness ==
  /\ pc = "done" /\ op = "expand"
  /\ output # out0
  /\ \A i \in 1..Len(writes) : writes[i] > 0
  /\ input.width = 2 /\ input.height = 3

\* how often the cell (r, c) of the output has been stored to in this call
WritesAt(r, c) == writes[r * output.width + c + 1]

\* C11 as stated: when a transformation returns, every cell of the output
\* raster has been written exactly once, whatever the output size.
C11_EveryCellOnce ==
  pc = "done" => \A x \in Coords(output) : WritesAt(x[1], x[2]) = 1

\* C11, amended: during a call no cell of the output raster is written more
\* than once; when color_rot, blur or expand return every cell has been
\* written exactly once, and when squash returns every cell whose source
\* (row*yfac, col*xfac) lies inside the input has been written exactly once
\* (a cell whose source lies outside the input may never be written).
C11_CellsAtMostOnce ==
  pc \in {"run", "done", "trap"} =>
    /\ \A x \in Coords(output) : WritesAt(x[1], x[2]) <= 1
    /\ pc = "done" =>
         \A x \in Coords(output) :
           (op = "squash" => (/\ ProductBelow(x[1], yfac, input.height)
                              /\ ProductBelow(x[2], xfac, input.width)))
             => WritesAt(x[1], x[2]) = 1

C11_Witness ==
  /\ op = "squash" /\ pc = "done"
  /\ xfac = 2 /\ yfac = 1
  /\ input.width = 3 /\ input.height = 2
  /\ output.width = 3 /\ output.height = 2
  /\ writes = << 1, 1, 0, 1, 1, 0 >>

\* every pixel of img holds the value of its first pixel
Uniform(img) == \A i \in 1..Len(img.data) : img.data[i] = img.data[1]

\* C12: after imgproc_expand of an image whose pixels all equal one value V
\* into an output of twice the width and height, every output pixel equals V.
C12_ExpandKeepsUniform ==
  (op = "expand" /\ pc = "done" /\ Uniform(input)) =>
    /\ output.width = 2 * input.width /\ output.height = 2 * input.height
    /\ \A x \in Coords(output) : At(output, x[1], x[2]) = At(input, 0, 0)

C12_Witness ==
  /\ op = "expand" /\ pc = "done"
  /\ input.width = 2 /\ input.height = 2
  /\ input.data = << <<255, 128, 64, 0>>, <<255, 128, 64, 0>>, <<255, 128, 64, 0>>, <<255, 128, 64, 0>> >>
  /\ At(output, 1, 1) = <<255, 128, 64, 0>> /\ At(output, 3, 3) = <<255, 128, 64, 0>>
  /\ At(output, 0, 3) = <<255, 128, 64, 0>> /\ At(output, 3, 0) = <<255, 128, 64, 0>>

\* C13: after imgproc_expand of an image of height 1 and width w into a
\* 2-row, 2w-column output, the two output rows are identical.
C13_ExpandOneRowTwice ==
  (op = "expand" /\ pc = "done" /\ input.height = 1) =>
    /\ output.height = 2 /\ output.width = 2 * input.width
    /\ \A j \in 0..(output.width - 1) : At(output, 1, j) = At(output, 0, j)

C13_Witness ==
  /\ op = "expand" /\ pc = "done"
  /\ input.height = 1 /\ input.width = 3
  /\ input.data = << <<255, 128, 64, 0>>, <<0, 1, 3, 255>>, <<255, 128, 64, 0>> >>
  /\ At(output, 0, 1) = <<127, 64, 33, 127>> /\ At(output, 1, 1) = <<127, 64, 33, 127>>
  /\ At(output, 0, 5) = <<255, 128, 64, 0>>  /\ At(output, 1, 5) = <<255, 128, 64, 0>>

\* the capacity of the local array pixels[] in the case of output (i, j)
Capacity(i, j) == IF i % 2 = 1 /\ j % 2 = 1 THEN 4 ELSE 2

\* C14: in imgproc_expand, at every iteration whose output coordinate is
\* not even/even, the number of pixels passed to avg_pixels is 1, 2 or 4
\* (never 0, never 3) and at most the capacity of pixels[] in that case.
C14_ExpandCounts ==
  (op = "expand" /\ pc = "run" /\ row < LoopH /\ ~(row % 2 = 0 /\ col % 2 = 0)) =>
    /\ Len(ExpandPixels(input, row, col)) \in {1, 2, 4}
    /\ Len(ExpandPixels(input, row, col)) <= Capacity(row, col)

C14_Witness ==
  /\ op = "expand" /\ pc = "run"
  /\ input.width = 3 /\ input.height = 2
  /\ row = 1 /\ col = 3
  /\ Len(ExpandPixels(input, row, col)) = 4
  /\ Len(ExpandPixels(input, 3, 3)) = 2
  /\ Len(ExpandPixels(input, 3, 5)) = 1

\* the indices at which the iteration about to run reads the input raster
Reads ==
  IF op = "squash" THEN SquashReads(input, row, col, xfac, yfac)
  ELSE IF op = "color_rot" THEN ColorRotReads(input, row, col)
  ELSE IF op = "blur" THEN BlurReads(input, row, col, blur_dist)
  ELSE ExpandReads(input, row, col)

\* C15: under the caller preconditions (positive sizes, blur_dist >= 0,
\* xfac, yfac > 0, output of the input's size for color_rot and blur and of
\* twice its size for expand) no call traps, and at every iteration every
\* index at which the input raster is read lies in [0, width*height) of the
\* input, the index at which the output raster is written lies in
\* [0, width*height) of the output, and in blur_pixel count is at least 1
\* when the division is performed.
C15_IndicesInRange ==
  /\ pc # "trap"
  /\ (pc = "run" /\ row < LoopH) =>
       /\ \A i \in Reads : InBounds(input, i)
       /\ InBounds(output, OutIndex)
       /\ op = "blur" => blur_count(input, row, col, blur_dist) >= 1
=============================================================================
